---- MODULE Spec2Model ----
(***************************************************************************)
(* The type-checking parser of hw#3.py: the PLY grammar actions p_* run at *)
(* each reduction of a shift-reduce parse, read and write the two global   *)
(* declaration tables found_procedures and found_variables, and pass the   *)
(* synthesized attribute of a production upward in p[0].                   *)
(*                                                                         *)
(* Python values are modelled as tagged records so that values of          *)
(* different Python types compare unequal (None # "Int") instead of being  *)
(* incomparable.                                                           *)
(***************************************************************************)
EXTENDS Integers, Sequences, FiniteSets, TLC

\* ------------------------------------------------------------ bounds
\* Number of definitions (top-level or nested) in a source text.
MaxDefs == 2

\* ------------------------------------------------------------ Python values
None == [py |-> "NoneType"]
Str(s) == [py |-> "str", s |-> s]
PyInt(n) == [py |-> "int", n |-> n]
List(items) == [py |-> "list", items |-> items]

\* bool(v): None, the empty list, "" and 0 are falsy; an object of a class
\* that defines neither __bool__ nor __len__ is truthy.
Truthy(v) ==
    CASE v.py = "NoneType" -> FALSE
      [] v.py = "list" -> Len(v.items) > 0
      [] v.py = "str" -> v.s # ""
      [] v.py = "int" -> v.n # 0
      [] OTHER -> TRUE

\* list + list
PyAdd(a, b) == List(a.items \o b.items)

\* dict.get(key) with the default None, and dict[key] = value
DictGet(d, k) == IF k \in DOMAIN d THEN d[k] ELSE None
DictSet(d, k, v) == [x \in (DOMAIN d) \cup {k} |-> IF x = k THEN v ELSE d[x]]
EmptyDict == [x \in {} |-> None]

Procedure(name, return_type, parameters, local_variables) ==
    [py |-> "Procedure", name |-> name, return_type |-> return_type,
     parameters |-> parameters, local_variables |-> local_variables]

Variable(name, type) == [py |-> "Variable", name |-> name, type |-> type]

\* ------------------------------------------------------------ lexer
reserved ==
    [w \in {"def", "var", "Int", "if", "else"} |->
        CASE w = "def" -> "DEF" [] w = "var" -> "VAR" [] w = "Int" -> "INT"
          [] w = "if" -> "IF" [] w = "else" -> "ELSE"]

\* int(t.value) of a numeral lexeme
IntOf(lexeme) == CASE lexeme = "0" -> 0 [] lexeme = "1" -> 1 [] lexeme = "2" -> 2

\* t_ID: a reserved word takes its keyword type, anything else is an ID
t_ID(lexeme) ==
    [type |-> IF lexeme \in DOMAIN reserved THEN reserved[lexeme] ELSE "ID",
     value |-> Str(lexeme)]

\* t_NUM: the value becomes a Python int
t_NUM(lexeme) == [type |-> "NUM", value |-> PyInt(IntOf(lexeme))]

\* the simple tokens t_PLUS ... t_ARROW: the value is the matched text
SimpleTokens ==
    [w \in {"+", "-", "*", "/", "(", ")", "{", "}", "=", "==", "!=", "<", ">",
            "<=", ">=", "%", ",", ";", ":", "=>"} |->
        CASE w = "+" -> "PLUS" [] w = "-" -> "MINUS" [] w = "*" -> "STAR"
          [] w = "/" -> "SLASH" [] w = "(" -> "LPAREN" [] w = ")" -> "RPAREN"
          [] w = "{" -> "LBRACE" [] w = "}" -> "RBRACE" [] w = "=" -> "BECOMES"
          [] w = "==" -> "EQ" [] w = "!=" -> "NE" [] w = "<" -> "LT"
          [] w = ">" -> "GT" [] w = "<=" -> "LE" [] w = ">=" -> "GE"
          [] w = "%" -> "PCT" [] w = "," -> "COMMA" [] w = ";" -> "SEMI"
          [] w = ":" -> "COLON" [] w = "=>" -> "ARROW"]

Tok(w) == [type |-> SimpleTokens[w], value |-> Str(w)]

\* numeral lexemes (\d+); every other lexeme that is no simple token matches
\* t_ID ([a-zA-Z][a-zA-Z0-9]*)
NumLexemes == {"0", "1", "2"}

\* the token of one lexeme
Lex(lexeme) ==
    IF lexeme \in DOMAIN SimpleTokens THEN Tok(lexeme)
    ELSE IF lexeme \in NumLexemes THEN t_NUM(lexeme)
    ELSE t_ID(lexeme)

RECURSIVE Tokenize(_)
Tokenize(text) ==
    IF text = <<>> THEN <<>> ELSE <<Lex(Head(text))>> \o Tokenize(Tail(text))

\* ------------------------------------------------------------ source texts
\* A source text is a sequence of up to MaxDefs definitions, read lazily: each
\* definition is one of Heads (up to the locals) followed by nested
\* definitions and one of Bodies (the statements and the closing brace).
Heads ==
    { <<"def", "f", "(", ")", ":", "Int", "=", "{">>,
      <<"def", "f", "(", "x", ":", "Int", ")", ":", "Int", "=", "{",
        "var", "y", ":", "Int", ";">>,
      <<"def", "g", "(", "x", ":", "Int", ",", "f", ":", "(", "Int", ",", "Int", ")", "=>", "Int", ")",
        ":", "(", ")", "=>", "Int", "=", "{",
        "var", "y", ":", "Int", ";", "var", "x", ":", "Int", ";">> }

Bodies ==
    { <<"x", "}">>,
      <<"y", "=", "x", "+", "1", ";", "y", "}">>,
      <<"y", "=", "x", "-", "x", ";", "y", "}">>,
      <<"q", "*", "x", "}">>,
      <<"x", "/", "q", "%", "x", "}">>,
      <<"x", "+", "q", "}">>,
      <<"q", "+", "x", "}">>,
      <<"q", ";", "x", "}">>,
      <<"x", ";", "q", "}">>,
      <<"q", "=", "x", "}">>,
      <<"y", "=", "q", "}">>,
      <<"f", "=", "x", "}">>,
      <<"if", "(", "x", "<", "y", ")", "{", "x", "}", "else", "{", "q", "}", "}">>,
      <<"if", "(", "q", "==", "x", ")", "{", "q", "}", "else", "{", "x", "}", "}">>,
      <<"if", "(", "x", ">=", "x", ")", "{", "x", "}", "else", "{", "y", "=", "x", "}", "}">>,
      <<"f", "(", "x", ",", "x", ")", "}">>,
      <<"f", "(", ")", "}">>,
      <<"(", "x", ")", "}">>,
      <<"x", "+", "f", "}">> }

\* def f(x: Int): Int = { var y: Int; y = x + 1; y }
CanonicalText ==
    <<"def", "f", "(", "x", ":", "Int", ")", ":", "Int", "=", "{",
      "var", "y", ":", "Int", ";", "y", "=", "x", "+", "1", ";", "y", "}">>

VARIABLES
    found_procedures,   \* name -> Procedure
    found_variables,    \* name -> Variable
    stack,              \* the parser's symbol stack
    input,              \* the tokens read from the source and not yet shifted
    eof,                \* the source has no more text
    defs,               \* how many definitions the source has opened
    status,             \* "parsing", "accepted", or the exception raised
    result,             \* what parser.parse returns
    last                \* the last reduction: production, p[1..], p[0], source text

vars == <<found_procedures, found_variables, stack, input, eof, defs, status, result, last>>

\* ------------------------------------------------------------ grammar actions
\* Every p_* function is an operator of the slice p[1..] it is called with
\* (len(p) of the code is PLen(p)); it yields p[0], the two tables as the
\* function leaves them, and the exception it raises, if any.  p[0] is None
\* unless the function assigns it.
PLen(p) == Len(p) + 1

Ret(v) == [p0 |-> v, fv |-> found_variables, fp |-> found_procedures, exc |-> "none"]
Raise(e) == [p0 |-> None, fv |-> found_variables, fp |-> found_procedures, exc |-> e]

\* defdefs : defdef defdefs | defdef
p_declaration(p) ==
    Ret(IF PLen(p) > 2 THEN PyAdd(List(<<p[1]>>), p[2]) ELSE List(<<p[1]>>))

\* p_define_expression without its check of the body's type (lines 160-162)
p_define_expression_unchecked(p) ==
    LET procedure_name == p[2]
        procedure == Procedure(procedure_name, p[7], p[4], p[10])
    IN  IF procedure_name \in DOMAIN found_procedures THEN Ret(None)
        ELSE [p0 |-> procedure,
              fv |-> found_variables,
              fp |-> DictSet(found_procedures, procedure_name, procedure),
              exc |-> "none"]

\* p_define_expression without its check of the name (lines 174-176)
p_define_expression_overwrite(p) ==
    LET procedure_name == p[2]
        procedure == Procedure(procedure_name, p[7], p[4], p[10])
    IN  IF p[12] # p[7] THEN Ret(None)
        ELSE [p0 |-> procedure,
              fv |-> found_variables,
              fp |-> DictSet(found_procedures, procedure_name, procedure),
              exc |-> "none"]

\* p_define_expression taking the parameters and locals of a definition it
\* rejects out of found_variables again
p_define_expression_rollback(p) ==
    LET procedure_name == p[2]
        procedure == Procedure(procedure_name, p[7], p[4], p[10])
        declared == {p[4].items[i].name : i \in 1..Len(p[4].items)}
                      \cup {p[10].items[i].name : i \in 1..Len(p[10].items)}
        rolled == [x \in (DOMAIN found_variables) \ declared |-> found_variables[x]]
    IN  IF p[12] # p[7] \/ procedure_name \in DOMAIN found_procedures
        THEN [p0 |-> None, fv |-> rolled, fp |-> found_procedures, exc |-> "none"]
        ELSE [p0 |-> procedure,
              fv |-> found_variables,
              fp |-> DictSet(found_procedures, procedure_name, procedure),
              exc |-> "none"]

\* defdef : DEF ID LPAREN parmsopt RPAREN COLON type BECOMES LBRACE
\*          vardefsopt defdefsopt expras RBRACE
p_define_expression(p) ==
    LET child_expras == p[12]
        child_type == p[7]
        procedure_name == p[2]
        procedure == Procedure(procedure_name, p[7], p[4], p[10])
    IN  IF child_expras # child_type THEN Ret(None)
        ELSE IF procedure_name \in DOMAIN found_procedures THEN Ret(None)
        ELSE [p0 |-> procedure,
              fv |-> found_variables,
              fp |-> DictSet(found_procedures, procedure_name, procedure),
              exc |-> "none"]

\* empty :
p_empty(p) == Ret(None)

\* parmsopt : parms | empty
p_opt(p) == Ret(IF Truthy(p[1]) THEN p[1] ELSE List(<<>>))

\* parms : vardef COMMA parms | vardef
p_parms(p) ==
    Ret(IF PLen(p) > 2 THEN PyAdd(List(<<p[1]>>), p[3]) ELSE List(<<p[1]>>))

\* vardef : ID COLON type
p_var_declaration(p) ==
    LET variable_name == p[1]
        variable == Variable(variable_name, p[3])
    IN  [p0 |-> variable,
         fv |-> DictSet(found_variables, variable_name, variable),
         fp |-> found_procedures,
         exc |-> "none"]

\* type : INT | LPAREN typesopt RPAREN ARROW type
p_type(p) == Ret(IF PLen(p) = 2 THEN p[1] ELSE p[5])

\* typesopt : types | empty
p_type_opt(p) == Ret(IF Truthy(p[1]) THEN p[1] ELSE List(<<>>))

\* types : type COMMA types | type
p_types(p) == Ret(PyAdd(List(<<p[1]>>), IF PLen(p) = 4 THEN p[3] ELSE List(<<>>)))

\* vardefsopt : VAR vardef SEMI vardefsopt | empty
p_var_opt(p) == Ret(IF PLen(p) = 5 THEN PyAdd(List(<<p[2]>>), p[4]) ELSE List(<<>>))

\* defdefsopt : defdefs | empty
p_def_opt(p) == Ret(IF Truthy(p[1]) THEN p[1] ELSE List(<<>>))

\* expras : expra SEMI expras | expra
p_expras(p) == Ret(IF PLen(p) = 4 THEN p[3] ELSE p[1])

\* p_expra without the lookup failure of an assignment's target (lines 313-315)
p_expra_unbound_target(p) ==
    LET child_expr == IF PLen(p) = 4 THEN p[3] ELSE p[1]
        var == DictGet(found_variables, p[1])
    IN  IF PLen(p) = 4 /\ Truthy(var) /\ var.type # child_expr THEN Ret(None)
        ELSE Ret(child_expr)

\* expra : ID BECOMES expr | expr
p_expra(p) ==
    LET child_expr == IF PLen(p) = 4 THEN p[3] ELSE p[1]
        var == DictGet(found_variables, p[1])
    IN  IF PLen(p) = 4
        THEN IF Truthy(var)
             THEN IF var.type # child_expr THEN Ret(None) ELSE Ret(child_expr)
             ELSE Ret(None)
        ELSE Ret(child_expr)

\* expr : IF LPAREN test RPAREN LBRACE expras RBRACE ELSE LBRACE expras RBRACE
\*      | term | expr PLUS term | expr MINUS term
p_expr(p) ==
    IF PLen(p) = 2 THEN Ret(p[1])
    ELSE IF PLen(p) = 4
    THEN LET child_expr == p[1]
             child_term == p[3]
         IN  IF child_expr # Str("Int") THEN Ret(None)
             ELSE IF child_term # Str("Int") THEN Ret(None)
             ELSE Ret(Str("Int"))
    ELSE Ret(p[6])

\* term : factor | term STAR factor | term SLASH factor | term PCT factor
p_term(p) == IF PLen(p) = 2 THEN Ret(p[1]) ELSE Ret(Str("Int"))

\* str.isdigit() of an identifier or numeral lexeme
IsDigit(s) == s \in {"0", "1", "2"}

\* factor : ID | NUM | LPAREN expr RPAREN | factor LPAREN argsopt RPAREN
\* p[1].isdigit() exists on a str only: on the int of a NUM token the
\* attribute lookup raises AttributeError.
p_factor(p) ==
    IF PLen(p) = 2
    THEN LET var == DictGet(found_variables, p[1])
         IN  IF p[1].py # "str" THEN Raise("AttributeError")
             ELSE IF IsDigit(p[1].s) THEN Ret(Str("Int"))
             ELSE IF Truthy(var) THEN Ret(var.type)
             ELSE Ret(None)
    ELSE IF PLen(p) = 4 THEN Ret(p[2])
    ELSE Ret(None)

\* test : expr NE expr | expr LT expr | ... | expr EQ expr
p_test(p) == Ret(None)

\* argsopt : args | empty
p_argsopt(p) == Ret(IF Truthy(p[1]) THEN p[1] ELSE List(<<>>))

\* args : expr COMMA args | expr
p_args(p) == Ret(None)

\* ------------------------------------------------------------ parser engine
\* The shift-reduce engine (ply.yacc) that calls the grammar actions.  An
\* entry of the symbol stack is a grammar symbol with the values it stands
\* for: a nonterminal carries its p[0] followed by the values of the
\* terminals the grammar forces right after it; a run of terminals shifted
\* together is one entry.  An entry also keeps the source text it was
\* derived from (the values of its tokens) until its definition is reduced.
Entry(sym, vals, text) == [sym |-> sym, vals |-> vals, text |-> text]

\* the symbol k entries below the top of the stack ("$" below the bottom)
Top(k) == IF Len(stack) >= k THEN stack[Len(stack) - k + 1].sym ELSE "$"
\* the attribute of the nonterminal k entries below the top
Val(k) == stack[Len(stack) - k + 1].vals[1]

RECURSIVE Concat(_)
Concat(es) == IF es = <<>> THEN <<>> ELSE Head(es).vals \o Concat(Tail(es))

RECURSIVE TextOf(_)
TextOf(es) == IF es = <<>> THEN <<>> ELSE Head(es).text \o TextOf(Tail(es))

RECURSIVE RunLen(_, _)
\* how many entries at the top of s carry a symbol of syms
RunLen(s, syms) ==
    IF s = <<>> \/ s[Len(s)].sym \notin syms THEN 0
    ELSE 1 + RunLen(SubSeq(s, 1, Len(s) - 1), syms)

\* the lookahead token's type, once the lexer has produced it
LAKnown == input # <<>> \/ eof
LAType == IF input = <<>> THEN "$end" ELSE input[1].type
LAIn(S) == LAKnown /\ LAType \in S
LANotIn(S) == LAKnown /\ LAType \notin S

\* the next tokens have the types tys, in order
Expect(tys) ==
    /\ Len(tys) <= Len(input)
    /\ \A i \in 1..Len(tys) : input[i].type = tys[i]
\* the values of the next n tokens, and the input after them
Taken(from, n) == [i \in 1..n |-> input[from + i - 1].value]
Rest(n) == SubSeq(input, n + 1, Len(input))

\* the separator that precedes the next element of a list
SepTok ==
    CASE Top(1) = "vardef" /\ Top(2) # "VAR" -> <<"COMMA">>
      [] Top(1) = "type" /\ Top(2) \in {"TLP", "type"} -> <<"COMMA">>
      [] Top(1) = "expr" /\ Top(2) \in {"LPARENC", "expr"} -> <<"COMMA">>
      [] Top(1) = "expra" -> <<"SEMI">>
      [] OTHER -> <<>>

\* the terminals the grammar forces right after a nonterminal
PostOf(sym, below) ==
    CASE sym = "parmsopt" -> <<"RPAREN", "COLON">>
      [] sym = "type" /\ below = "parmsopt" -> <<"BECOMES", "LBRACE">>
      [] sym = "vardef" /\ below = "VAR" -> <<"SEMI">>
      [] sym = "typesopt" -> <<"RPAREN", "ARROW">>
      [] sym = "test" -> <<"RPAREN", "LBRACE">>
      [] OTHER -> <<>>

\* the stack s with the separator's value shifted onto its top entry
WithSep(s, sep) ==
    IF sep = <<>> THEN s
    ELSE [s EXCEPT ![Len(s)].vals = @ \o Taken(1, Len(sep)),
                   ![Len(s)].text = @ \o Taken(1, Len(sep))]

NoReduction == [prod |-> "none", p |-> <<>>, out |-> None, exc |-> "none", text |-> <<>>]

\* shift the tokens of types tys as one entry
Shift(useSep, tys, sym) ==
    LET sep == IF useSep THEN SepTok ELSE <<>>
    IN  /\ status = "parsing"
        /\ Expect(sep \o tys)
        /\ input' = Rest(Len(sep) + Len(tys))
        /\ stack' = WithSep(stack, sep)
                      \o <<Entry(sym, Taken(Len(sep) + 1, Len(tys)), Taken(Len(sep) + 1, Len(tys)))>>
        /\ last' = NoReduction
        /\ UNCHANGED <<found_procedures, found_variables, eof, defs, status, result>>

\* the grammar action of a production, called with the slice p
Call(prod, p) ==
    CASE prod = "p_declaration" -> p_declaration(p)
      [] prod = "p_define_expression" -> p_define_expression(p)
      [] prod = "p_empty" -> p_empty(p)
      [] prod = "p_opt" -> p_opt(p)
      [] prod = "p_parms" -> p_parms(p)
      [] prod = "p_var_declaration" -> p_var_declaration(p)
      [] prod = "p_type" -> p_type(p)
      [] prod = "p_type_opt" -> p_type_opt(p)
      [] prod = "p_types" -> p_types(p)
      [] prod = "p_var_opt" -> p_var_opt(p)
      [] prod = "p_def_opt" -> p_def_opt(p)
      [] prod = "p_expras" -> p_expras(p)
      [] prod = "p_expra" -> p_expra(p)
      [] prod = "p_expr" -> p_expr(p)
      [] prod = "p_term" -> p_term(p)
      [] prod = "p_factor" -> p_factor(p)
      [] prod = "p_test" -> p_test(p)
      [] prod = "p_argsopt" -> p_argsopt(p)
      [] prod = "p_args" -> p_args(p)

\* reduce the top n entries, and the closing terminals shifted with them, to
\* sym: the grammar action is called on the slice and its p[0] becomes the
\* attribute of sym; an exception the action raises ends the parse.
Reduce(n, useSep, closers, sym, prod) ==
    LET sep == IF useSep THEN SepTok ELSE <<>>
        base == SubSeq(stack, 1, Len(stack) - n)
        below == IF base = <<>> THEN "$" ELSE base[Len(base)].sym
        post == PostOf(sym, below)
        k == Len(sep) + Len(closers)
        handle == SubSeq(stack, Len(stack) - n + 1, Len(stack))
        p == Concat(handle) \o Taken(Len(sep) + 1, Len(closers))
        text == TextOf(handle) \o Taken(Len(sep) + 1, Len(closers))
        h == Call(prod, p)
    IN  /\ status = "parsing"
        /\ Expect(sep \o closers)
        /\ found_variables' = h.fv
        /\ found_procedures' = h.fp
        /\ last' = [prod |-> prod, p |-> p, out |-> h.p0, exc |-> h.exc, text |-> text]
        /\ UNCHANGED <<eof, defs, result>>
        /\ IF h.exc # "none"
           THEN /\ input' = Rest(k)
                /\ status' = h.exc
                /\ stack' = stack
           ELSE /\ Expect(sep \o closers \o post)
                /\ input' = Rest(k + Len(post))
                /\ status' = status
                /\ stack' = WithSep(base, sep)
                              \o <<Entry(sym, <<h.p0>> \o Taken(k + 1, Len(post)),
                                         IF sym = "defdef" THEN <<>>
                                         ELSE text \o Taken(k + 1, Len(post)))>>

\* where a statement, an expression, a factor and a type may start
ExpraStart == Top(1) \in {"defdefsopt", "expra", "test", "ELSE"}
ArgCtx == Top(1) = "expr" /\ Top(2) \in {"LPARENC", "expr"}
ExprStart == ExpraStart \/ Top(1) \in {"IDB", "LPAREN", "IF", "CMP", "LPARENC"} \/ ArgCtx
FactorStart == ExprStart \/ Top(1) \in {"PLUS", "STAR"}
TypeStart ==
    \/ Top(1) \in {"IDV", "parmsopt", "TLP", "typesopt"}
    \/ Top(1) = "type" /\ Top(2) \in {"TLP", "type"}
\* the definitions on the stack are all top-level ones
TopLevel == RunLen(stack, {"defdef"}) = Len(stack)
\* inside a definition, before its nested definitions and statements
InDef ==
    \/ Top(1) = "type" /\ Top(2) = "parmsopt"
    \/ Top(1) = "vardef" /\ Top(2) = "VAR"
    \/ Top(1) = "defdef" /\ ~TopLevel

AddOps == {"PLUS", "MINUS"}
MulOps == {"STAR", "SLASH", "PCT"}
CmpOps == {"NE", "LT", "LE", "GE", "GT", "EQ"}

Init ==
    /\ found_procedures = EmptyDict
    /\ found_variables = EmptyDict
    /\ stack = <<>>
    /\ input = <<>>
    /\ eof = FALSE
    /\ defs = 0
    /\ status = "parsing"
    /\ result = None
    /\ last = NoReduction

\* ---- the source text, read when the parser needs its next token
\* the text goes on with the head of a definition
ReadHead ==
    /\ status = "parsing" /\ input = <<>> /\ ~eof
    /\ TopLevel \/ InDef
    /\ defs < MaxDefs
    /\ \E text \in Heads : input' = Tokenize(text)
    /\ defs' = defs + 1
    /\ last' = NoReduction
    /\ UNCHANGED <<found_procedures, found_variables, stack, eof, status, result>>

\* the text goes on with the statements of the open definition
ReadBody ==
    /\ status = "parsing" /\ input = <<>> /\ ~eof
    /\ InDef
    /\ \E text \in Bodies : input' = Tokenize(text)
    /\ last' = NoReduction
    /\ UNCHANGED <<found_procedures, found_variables, stack, eof, defs, status, result>>

\* the text ends after a top-level definition
ReadEnd ==
    /\ status = "parsing" /\ input = <<>> /\ ~eof
    /\ TopLevel /\ stack # <<>>
    /\ eof' = TRUE
    /\ last' = NoReduction
    /\ UNCHANGED <<found_procedures, found_variables, stack, input, defs, status, result>>

\* ---- shifts
\* DEF ID LPAREN
ShiftDEF ==
    /\ \/ Top(1) \in {"$", "defdef"}
       \/ Top(1) = "vardefsopt" /\ Top(2) = "type"
    /\ Shift(FALSE, <<"DEF", "ID", "LPAREN">>, "DEF")

\* ID COLON, opening a vardef
ShiftIDV ==
    /\ \/ Top(1) \in {"DEF", "VAR"}
       \/ Top(1) = "vardef" /\ Top(2) # "VAR"
    /\ Shift(TRUE, <<"ID", "COLON">>, "IDV")

\* VAR
ShiftVAR ==
    /\ \/ Top(1) = "type" /\ Top(2) = "parmsopt"
       \/ Top(1) = "vardef" /\ Top(2) = "VAR"
    /\ Shift(FALSE, <<"VAR">>, "VAR")

\* LPAREN, opening a function type
ShiftTLP ==
    /\ TypeStart
    /\ Shift(TRUE, <<"LPAREN">>, "TLP")

\* ID BECOMES, opening an assignment
ShiftIDB ==
    /\ ExpraStart
    /\ Shift(TRUE, <<"ID", "BECOMES">>, "IDB")

\* IF LPAREN
ShiftIF ==
    /\ ExprStart
    /\ Shift(TRUE, <<"IF", "LPAREN">>, "IF")

\* LPAREN, opening a parenthesized expr
ShiftLPAREN ==
    /\ FactorStart
    /\ Shift(TRUE, <<"LPAREN">>, "LPAREN")

\* LPAREN, opening the arguments of a call
ShiftLPARENC ==
    /\ Top(1) = "factor"
    /\ Shift(FALSE, <<"LPAREN">>, "LPARENC")

\* STAR, SLASH or PCT after a term
ShiftSTAR ==
    /\ Top(1) = "term"
    /\ \E op \in MulOps : Shift(FALSE, <<op>>, "STAR")

\* PLUS or MINUS after an expr
ShiftPLUS ==
    /\ Top(1) = "expr"
    /\ \E op \in AddOps : Shift(FALSE, <<op>>, "PLUS")

\* a comparison operator after the first expr of a test
ShiftCMP ==
    /\ Top(1) = "expr" /\ Top(2) = "IF"
    /\ \E op \in CmpOps : Shift(FALSE, <<op>>, "CMP")

\* RBRACE ELSE LBRACE between the branches of an if
ShiftELSE ==
    /\ Top(1) = "expras" /\ Top(2) = "test"
    /\ Shift(FALSE, <<"RBRACE", "ELSE", "LBRACE">>, "ELSE")

\* ---- reductions
ReduceEmpty ==
    /\ \/ Top(1) \in {"DEF", "TLP", "LPARENC"} /\ LAIn({"RPAREN"})
       \/ Top(1) = "type" /\ Top(2) = "parmsopt" /\ LANotIn({"VAR"})
       \/ Top(1) = "vardef" /\ Top(2) = "VAR" /\ LANotIn({"VAR"})
       \/ Top(1) = "vardefsopt" /\ Top(2) = "type" /\ LANotIn({"DEF"})
    /\ Reduce(0, FALSE, <<>>, "empty", "p_empty")

ReduceTypeInt ==
    /\ TypeStart
    /\ Reduce(0, TRUE, <<"INT">>, "type", "p_type")

ReduceTypeFn ==
    /\ Top(1) = "type" /\ Top(2) = "typesopt"
    /\ Reduce(3, FALSE, <<>>, "type", "p_type")

ReduceTypes ==
    \/ /\ Top(1) = "type" /\ Top(2) \in {"TLP", "type"}
       /\ LAIn({"RPAREN"})
       /\ Reduce(1, FALSE, <<>>, "types", "p_types")
    \/ /\ Top(1) = "types" /\ Top(2) = "type"
       /\ Reduce(2, FALSE, <<>>, "types", "p_types")

ReduceTypeOpt ==
    /\ Top(1) \in {"types", "empty"} /\ Top(2) = "TLP"
    /\ Reduce(1, FALSE, <<>>, "typesopt", "p_type_opt")

ReduceVardef ==
    /\ Top(1) = "type" /\ Top(2) = "IDV"
    /\ Reduce(2, FALSE, <<>>, "vardef", "p_var_declaration")

ReduceParms ==
    \/ /\ Top(1) = "vardef" /\ Top(2) # "VAR"
       /\ LAIn({"RPAREN"})
       /\ Reduce(1, FALSE, <<>>, "parms", "p_parms")
    \/ /\ Top(1) = "parms" /\ Top(2) = "vardef"
       /\ Reduce(2, FALSE, <<>>, "parms", "p_parms")

ReduceParmsOpt ==
    /\ Top(1) \in {"parms", "empty"} /\ Top(2) = "DEF"
    /\ Reduce(1, FALSE, <<>>, "parmsopt", "p_opt")

ReduceVarOpt ==
    \/ /\ Top(1) = "empty" /\ Top(2) \in {"type", "vardef"}
       /\ Reduce(1, FALSE, <<>>, "vardefsopt", "p_var_opt")
    \/ /\ Top(1) = "vardefsopt" /\ Top(2) = "vardef"
       /\ Reduce(3, FALSE, <<>>, "vardefsopt", "p_var_opt")

ReduceDefOpt ==
    /\ Top(1) \in {"defdefs", "empty"} /\ Top(2) = "vardefsopt"
    /\ Reduce(1, FALSE, <<>>, "defdefsopt", "p_def_opt")

ReduceDeclaration ==
    \/ /\ Top(1) = "defdef"
       /\ LANotIn({"DEF"})
       /\ Reduce(1, FALSE, <<>>, "defdefs", "p_declaration")
    \/ /\ Top(1) = "defdefs" /\ Top(2) = "defdef"
       /\ Reduce(2, FALSE, <<>>, "defdefs", "p_declaration")

ReduceDefine ==
    /\ Top(1) = "expras" /\ Top(2) = "defdefsopt"
    /\ Reduce(6, FALSE, <<"RBRACE">>, "defdef", "p_define_expression")

ReduceExpras ==
    \/ /\ Top(1) = "expra"
       /\ LAIn({"RBRACE"})
       /\ Reduce(1, FALSE, <<>>, "expras", "p_expras")
    \/ /\ Top(1) = "expras" /\ Top(2) = "expra"
       /\ Reduce(2, FALSE, <<>>, "expras", "p_expras")

ReduceExpra ==
    \/ /\ Top(1) = "expr" /\ Top(2) \in {"defdefsopt", "expra", "test", "ELSE"}
       /\ LANotIn(AddOps)
       /\ Reduce(1, FALSE, <<>>, "expra", "p_expra")
    \/ /\ Top(1) = "expr" /\ Top(2) = "IDB"
       /\ LANotIn(AddOps)
       /\ Reduce(2, FALSE, <<>>, "expra", "p_expra")

ReduceExpr ==
    \/ /\ Top(1) = "term" /\ Top(2) # "PLUS"
       /\ LANotIn(MulOps)
       /\ Reduce(1, FALSE, <<>>, "expr", "p_expr")
    \/ /\ Top(1) = "term" /\ Top(2) = "PLUS"
       /\ LANotIn(MulOps)
       /\ Reduce(3, FALSE, <<>>, "expr", "p_expr")
    \/ /\ Top(1) = "expras" /\ Top(2) = "ELSE"
       /\ Reduce(5, FALSE, <<"RBRACE">>, "expr", "p_expr")

ReduceTerm ==
    \/ /\ Top(1) = "factor" /\ Top(2) # "STAR"
       /\ LANotIn({"LPAREN"})
       /\ Reduce(1, FALSE, <<>>, "term", "p_term")
    \/ /\ Top(1) = "factor" /\ Top(2) = "STAR"
       /\ LANotIn({"LPAREN"})
       /\ Reduce(3, FALSE, <<>>, "term", "p_term")

\* factor : ID | NUM, the token shifted and reduced at once; an ID that
\* opens a statement and is followed by BECOMES is an assignment's target
ReduceFactorLeaf ==
    /\ FactorStart
    /\ ~(ExpraStart /\ Expect(SepTok \o <<"ID", "BECOMES">>))
    /\ \E ty \in {"ID", "NUM"} :
          Reduce(0, TRUE, <<ty>>, "factor", "p_factor")

ReduceFactorParen ==
    /\ Top(1) = "expr" /\ Top(2) = "LPAREN"
    /\ Reduce(2, FALSE, <<"RPAREN">>, "factor", "p_factor")

ReduceFactorCall ==
    /\ Top(1) = "argsopt"
    /\ Reduce(3, FALSE, <<"RPAREN">>, "factor", "p_factor")

ReduceArgs ==
    \/ /\ ArgCtx
       /\ LAIn({"RPAREN"})
       /\ Reduce(1, FALSE, <<>>, "args", "p_args")
    \/ /\ Top(1) = "args" /\ Top(2) = "expr"
       /\ Reduce(2, FALSE, <<>>, "args", "p_args")

ReduceArgsOpt ==
    /\ Top(1) \in {"args", "empty"} /\ Top(2) = "LPARENC"
    /\ Reduce(1, FALSE, <<>>, "argsopt", "p_argsopt")

ReduceTest ==
    /\ Top(1) = "expr" /\ Top(2) = "CMP"
    /\ LAIn({"RPAREN"})
    /\ Reduce(3, FALSE, <<>>, "test", "p_test")

\* the start symbol is reduced and the input is at its end: parser.parse
\* returns the attribute of defdefs
Accept ==
    /\ status = "parsing"
    /\ Len(stack) = 1 /\ Top(1) = "defdefs"
    /\ LAIn({"$end"})
    /\ status' = "accepted"
    /\ result' = Val(1)
    /\ last' = NoReduction
    /\ UNCHANGED <<found_procedures, found_variables, stack, input, eof, defs>>

Next ==
    \/ ReadHead \/ ReadBody \/ ReadEnd
    \/ ShiftDEF \/ ShiftIDV \/ ShiftVAR \/ ShiftTLP \/ ShiftIDB \/ ShiftIF
    \/ ShiftLPAREN \/ ShiftLPARENC \/ ShiftSTAR \/ ShiftPLUS \/ ShiftCMP \/ ShiftELSE
    \/ ReduceEmpty \/ ReduceTypeInt \/ ReduceTypeFn \/ ReduceTypes \/ ReduceTypeOpt
    \/ ReduceVardef \/ ReduceParms \/ ReduceParmsOpt \/ ReduceVarOpt \/ ReduceDefOpt
    \/ ReduceDeclaration \/ ReduceDefine \/ ReduceExpras \/ ReduceExpra \/ ReduceExpr
    \/ ReduceTerm \/ ReduceFactorLeaf \/ ReduceFactorParen \/ ReduceFactorCall
    \/ ReduceArgs \/ ReduceArgsOpt \/ ReduceTest \/ Accept

Spec == Init /\ [][Next]_vars

\* ------------------------------------------------------------ properties
\* the values of the tokens of a text, and the whole text of a program that
\* is being parsed: what the stack holds, the handle of a reduction that
\* raised, and what is still to be shifted
ValuesOf(text) == [i \in 1..Len(text) |-> Tokenize(text)[i].value]
InputValues == [i \in 1..Len(input) |-> input[i].value]
ProgramText ==
    TextOf(stack) \o (IF status \in {"parsing", "accepted"} THEN <<>> ELSE last.text)
                  \o InputValues
\* a reduction by a binary arithmetic production, by the if/else production,
\* by factor : ID | NUM, by a call, and by ID BECOMES expr
IsBinary(r) == r.prod \in {"p_expr", "p_term"} /\ PLen(r.p) = 4
IsIfElse(r) == r.prod = "p_expr" /\ PLen(r.p) = 12
IsLeaf(r) == r.prod = "p_factor" /\ PLen(r.p) = 2
IsCall(r) == r.prod = "p_factor" /\ PLen(r.p) = 5
IsAssign(r) == r.prod = "p_expra" /\ PLen(r.p) = 4
IsDefine(r) == r.prod = "p_define_expression"
\* the names a list of Variables declares
NamesOf(l) == {l.items[i].name : i \in 1..Len(l.items)}

\* C1: a defdef reduction whose body type differs from its declared type adds
\* nothing to found_procedures and yields None; one whose types agree and
\* whose name is new adds exactly the Procedure of its name, declared type,
\* parameters and locals, which is also the reduction's result.
C1_DefineChecksReturnType ==
    [][IsDefine(last') =>
         LET q == last'.p
             procedure == Procedure(q[2], q[7], q[4], q[10])
         IN  /\ q[12] # q[7] =>
                   /\ found_procedures' = found_procedures
                   /\ last'.out = None
             /\ (q[12] = q[7] /\ q[2] \notin DOMAIN found_procedures) =>
                   /\ last'.out = procedure
                   /\ stack'[Len(stack')].vals[1] = procedure
                   /\ DOMAIN found_procedures' = DOMAIN found_procedures \cup {q[2]}
                   /\ found_procedures' = DictSet(found_procedures, q[2], procedure)
      ]_vars

\* a definition with a new name is rejected for its body's type while another
\* definition is registered
C1_Witness ==
    /\ IsDefine(last)
    /\ last.p[12] # last.p[7]
    /\ last.p[2] \notin DOMAIN found_procedures
    /\ found_procedures # EmptyDict
    /\ last.out = None

\* C2: a defdef reduction whose name is already in found_procedures leaves
\* the table as it is and yields None; no step removes or changes an entry
\* of the table, and every entry is the Procedure of its key.
C2_DuplicateKeepsOriginal ==
    [][/\ (IsDefine(last') /\ last'.p[2] \in DOMAIN found_procedures) =>
             /\ found_procedures' = found_procedures
             /\ last'.out = None
       /\ \A n \in DOMAIN found_procedures :
             /\ n \in DOMAIN found_procedures'
             /\ found_procedures'[n] = found_procedures[n]
       /\ \A n \in DOMAIN found_procedures' : found_procedures'[n].name = n
      ]_vars

\* a well-typed definition is rejected for its name, registered with other
\* parameters
C2_Witness ==
    /\ IsDefine(last)
    /\ last.p[12] = last.p[7]
    /\ last.p[2] \in DOMAIN found_procedures
    /\ found_procedures[last.p[2]].parameters # last.p[4]
    /\ last.out = None

\* C3: a binary arithmetic reduction yields Int when both operand types are
\* Int and no type otherwise; an operand f, which the texts only ever
\* declare with the function type (Int, Int) => Int, makes it yield no type.
C3_ArithmeticChecksOperands ==
    IsBinary(last) =>
        /\ IF last.p[1] = Str("Int") /\ last.p[3] = Str("Int")
           THEN last.out = Str("Int")
           ELSE last.out = None
        /\ last.text = ValuesOf(<<"x", "+", "f">>) => last.out = None

\* C4: an if/else reduction yields the type of its branches when the two
\* types are equal and no type when they differ.
C4_IfElseBranchesAgree ==
    IsIfElse(last) =>
        IF last.p[6] = last.p[10] THEN last.out = last.p[6] ELSE last.out = None

\* C5: the call f(x, x) of a declared f, which the texts only ever declare
\* as f: (Int, Int) => Int, with x: Int yields the return type Int; the call
\* f() with too few arguments yields no type.
C5_CallChecksArguments ==
    (IsCall(last) /\ {Str("f"), Str("x")} \subseteq DOMAIN found_variables) =>
        /\ last.text = ValuesOf(<<"f", "(", "x", ",", "x", ")">>) => last.out = Str("Int")
        /\ last.text = ValuesOf(<<"f", "(", ")">>) => last.out = None

\* C6: the parse of the canonical program raises nothing, its definition
\* registers Procedure f with return type Int, parameter x: Int and local
\* y: Int, and a factor reduced from a NUM token yields Int.
C6_CanonicalProgramRegisters ==
    /\ (defs = 1 /\ ProgramText = ValuesOf(CanonicalText)) =>
           status \in {"parsing", "accepted"}
    /\ (IsLeaf(last) /\ last.p[1].py = "int") =>
           /\ last.exc = "none"
           /\ last.out = Str("Int")
    /\ (IsDefine(last) /\ defs = 1 /\ last.text = ValuesOf(CanonicalText)) =>
           /\ last.out = Procedure(Str("f"), Str("Int"),
                                   List(<<Variable(Str("x"), Str("Int"))>>),
                                   List(<<Variable(Str("y"), Str("Int"))>>))
           /\ found_procedures = DictSet(EmptyDict, Str("f"), last.out)

\* C7: a definition whose own statements use q, a name no text declares (so
\* that a lookup in its body fails), is not accepted.
C7_FailurePropagates ==
    (IsDefine(last) /\ \E i \in 1..Len(last.text) : last.text[i] = Str("q")) =>
        last.out = None

\* C8: the reduction of ID BECOMES expr yields None when ID is not in
\* found_variables or its declared type differs from the type of expr, and
\* the type of expr otherwise; it changes neither table, and it yields None
\* for an ID that is only a key of found_procedures.
C8_AssignmentChecksTarget ==
    [][IsAssign(last') =>
         LET id == last'.p[1]
             child_expr == last'.p[3]
         IN  /\ id \notin DOMAIN found_variables => last'.out = None
             /\ (id \in DOMAIN found_variables /\ found_variables[id].type # child_expr) =>
                   last'.out = None
             /\ (id \in DOMAIN found_variables /\ found_variables[id].type = child_expr) =>
                   last'.out = child_expr
             /\ found_variables' = found_variables
             /\ found_procedures' = found_procedures
             /\ (id \in DOMAIN found_procedures /\ id \notin DOMAIN found_variables) =>
                   last'.out = None
      ]_vars

\* an assignment to f, a registered procedure and no variable, is rejected
C8_Witness ==
    /\ IsAssign(last)
    /\ last.p[1] \in DOMAIN found_procedures
    /\ last.p[1] \notin DOMAIN found_variables
    /\ last.p[3] = Str("Int")
    /\ last.out = None

\* C9: the list parser.parse returns holds only Procedures, each the entry
\* of found_procedures under its name.
C9_ResultHoldsProcedures ==
    status = "accepted" =>
        \A i \in 1..Len(result.items) :
            /\ result.items[i].py = "Procedure"
            /\ result.items[i].name \in DOMAIN found_procedures
            /\ found_procedures[result.items[i].name] = result.items[i]

\* C10: no step removes a key of found_variables; a vardef reduction maps its
\* name to its Variable and no other step changes the table; a rejected
\* defdef reduction changes neither table, so its parameters and locals stay
\* declared; and factor : ID resolves every declared name to its type.
C10_VariablesAreGlobal ==
    [][/\ \A n \in DOMAIN found_variables : n \in DOMAIN found_variables'
       /\ IF last'.prod = "p_var_declaration"
          THEN found_variables' = DictSet(found_variables, last'.p[1],
                                          Variable(last'.p[1], last'.p[3]))
          ELSE found_variables' = found_variables
       /\ (IsDefine(last') /\ last'.out = None) =>
             /\ found_procedures' = found_procedures
             /\ NamesOf(last'.p[4]) \cup NamesOf(last'.p[10]) \subseteq DOMAIN found_variables'
       /\ (IsLeaf(last') /\ last'.p[1] \in DOMAIN found_variables) =>
             last'.out = found_variables[last'.p[1]].type
      ]_vars

\* x, declared only by a definition that was rejected, resolves in the body
\* of a later definition that has neither parameters nor locals
C10_Witness ==
    /\ IsLeaf(last) /\ last.p[1] = Str("x") /\ last.out = Str("Int")
    /\ Len(stack) = 7
    /\ stack[1].sym = "defdef" /\ stack[1].vals[1] = None
    /\ stack[3].sym = "parmsopt" /\ stack[3].vals[1] = List(<<>>)
    /\ stack[5].sym = "vardefsopt" /\ stack[5].vals[1] = List(<<>>)
    /\ found_procedures = EmptyDict
====
